---- MODULE Spec2Model ----
(***************************************************************************)
(* Model of the terminal file browser of src/main.py: the FileList         *)
(* cursor model, the FuzzyFinderScreen search session and the              *)
(* FileBrowserApp command handlers that tie them together.                 *)
(*                                                                         *)
(* A file name is a sequence of character codes, a path is the sequence    *)
(* of its segment names below the filesystem root (the root is <<>>), and  *)
(* an optional path (Python's Path | None) is a sequence of at most one    *)
(* path.                                                                   *)
(***************************************************************************)
EXTENDS Integers, Sequences, FiniteSets, TLC

(***************************************************************************)
(* Bounds of the model.                                                    *)
(***************************************************************************)
\* how many times the filesystem changes behind the program's back
MaxFsChanges == 1

(***************************************************************************)
(* Characters and names.                                                   *)
(***************************************************************************)
DOT == 46

n_sub == <<115, 117, 98>>                          \* "sub"
n_a_py == <<97, 46, 112, 121>>                     \* "a.py"
n_B_txt == <<66, 46, 116, 120, 116>>               \* "B.txt"
n_hidden == <<46, 104, 105, 100>>                  \* ".hid"
n_b_txt == <<98, 46, 116, 120, 116>>               \* "b.txt"
n_B_TXT == <<66, 46, 84, 88, 84>>                  \* "B.TXT"
n_lock == <<108, 111, 99, 107>>                    \* "lock"
n_key == <<107, 101, 121>>                         \* "key"
n_git == <<46, 103, 105, 116>>                     \* ".git"
n_cfg == <<99, 102, 103>>                          \* "cfg"

\* str.lower() on one character and on a string
LowerChar(c) == IF c >= 65 /\ c <= 90 THEN c + 32 ELSE c

lower(s) == [i \in 1..Len(s) |-> LowerChar(s[i])]

\* str.startswith('.')
startswith_dot(s) == Len(s) > 0 /\ s[1] = DOT

\* Python's < on two strings: lexicographic on the code points
RECURSIVE StrLess(_, _)
StrLess(s, t) ==
    IF s = <<>> THEN t # <<>>
    ELSE IF t = <<>> THEN FALSE
    ELSE IF s[1] # t[1] THEN s[1] < t[1]
    ELSE StrLess(Tail(s), Tail(t))

\* list.sort(key=...): a stable sort.  less[i][j] tells whether the key of
\* s[i] is smaller than the key of s[j].  (Appending <<>> makes TLC evaluate
\* a sequence once instead of at every use.)
StableSort(s, less) ==
    LET n == Len(s)
        Before(j, i) == less[j][i] \/ (~less[i][j] /\ j < i)
        pos == [i \in 1..n |-> Cardinality({j \in 1..n : j # i /\ Before(j, i)})]
                 \o <<>>
    IN  [k \in 1..n |-> s[CHOOSE i \in 1..n : pos[i] = k - 1]]

\* the keys of a list compared by Python's < on strings
StrKeysLess(key) ==
    [i \in 1..Len(key) |-> [j \in 1..Len(key) |-> StrLess(key[i], key[j])] \o <<>>]
        \o <<>>

(***************************************************************************)
(* Paths (pathlib.Path).                                                   *)
(***************************************************************************)
Root == <<>>

\* Path.parent: the root is its own parent
parent(p) == IF p = Root THEN Root ELSE SubSeq(p, 1, Len(p) - 1)

\* Path.name: empty for the root
name(p) == IF p = Root THEN <<>> ELSE p[Len(p)]

None == <<>>

Some(p) == <<p>>

(***************************************************************************)
(* The filesystem the program browses.  The universe of paths is fixed;    *)
(* which of them exist, which directories can be read and the order in     *)
(* which a directory scan returns its children are the filesystem state.   *)
(***************************************************************************)
p_sub == <<n_sub>>
p_a_py == <<n_a_py>>
p_B_txt == <<n_B_txt>>
p_hidden == <<n_hidden>>
p_sub_b == <<n_sub, n_b_txt>>
p_sub_B == <<n_sub, n_B_TXT>>
p_lock == <<n_sub, n_lock>>
p_key == <<n_sub, n_lock, n_key>>
p_git == <<n_git>>
p_cfg == <<n_git, n_cfg>>

DirPaths == {Root, p_sub, p_lock, p_git}

FilePaths == {p_a_py, p_B_txt, p_hidden, p_sub_b, p_sub_B, p_key, p_cfg}

Tree == DirPaths \cup FilePaths

\* the paths that vanish or change their permissions while the program runs
Volatile == {p_sub, p_sub_b}

\* one order in which a scan returns the paths of the tree; it is no sorted
\* order, and a scan may as well return them the other way round
ScanBase == <<p_B_txt, p_sub_B, p_a_py, p_hidden, p_sub, p_git, p_sub_b,
              p_lock, p_key, p_cfg>>

Reverse(s) == [i \in 1..Len(s) |-> s[Len(s) + 1 - i]]

\* Path.exists(), Path.is_dir()
exists(fs, p) == p \in fs.present

is_dir(fs, p) == p \in fs.present /\ p \in DirPaths

\* os.scandir / Path.iterdir on a readable directory: the children, in scan order
scandir(fs, d) ==
    LET IsChild(p) == p \in fs.present /\ p # Root /\ parent(p) = d
    IN  SelectSeq(fs.order, IsChild)


\* what Path.iterdir() does on d: list it, raise PermissionError, or raise
\* FileNotFoundError/NotADirectoryError
iterdir_status(fs, d) ==
    IF ~is_dir(fs, d) THEN "missing"
    ELSE IF d \notin fs.readable THEN "denied"
    ELSE "ok"

(***************************************************************************)
(* FileList: current_path, selected_index, show_hidden, entries, and       *)
(* what the widget shows ("blank" before the first refresh, "list" after   *)
(* render_list, "denied" after the permission-denied line was written).    *)
(* selected_index counts from 0 as in the source: entry i is entries[i+1]. *)
(***************************************************************************)
FileList_init(cwd) ==
    [current_path |-> cwd, selected_index |-> 0, show_hidden |-> FALSE,
     entries |-> <<>>, shown |-> "blank"]

\* the sort key of refresh_list, (not x.is_dir(), x.name.lower()), and
\* Python's < on two such tuples (False < True)
EntryKey(fs, x) == <<~is_dir(fs, x), lower(name(x))>>

EntryKeyLess(a, b) ==
    \/ (~a[1] /\ b[1])
    \/ (a[1] = b[1] /\ StrLess(a[2], b[2]))

\* entries.sort(key=lambda x: (not x.is_dir(), x.name.lower()))
sort_entries(fs, entries) ==
    LET n == Len(entries)
        key == [i \in 1..n |-> EntryKey(fs, entries[i])] \o <<>>
        less == [i \in 1..n |-> [j \in 1..n |-> EntryKeyLess(key[i], key[j])] \o <<>>]
                  \o <<>>
    IN  StableSort(entries, less)

render_list(fl) == [fl EXCEPT !.shown = "list"]

\* FileList.refresh_list; outcome "error" is an exception the method does not catch
refresh_list_keeps_hidden(fl, fs) ==
    LET st == iterdir_status(fs, fl.current_path)
        listed == scandir(fs, fl.current_path)
        sorted == sort_entries(fs, listed)
        withParent == IF fl.current_path # parent(fl.current_path)
                      THEN <<parent(fl.current_path)>> \o sorted
                      ELSE sorted
    IN  IF st = "missing" THEN [fl |-> fl, outcome |-> "error"]
        ELSE IF st = "denied"
        THEN [fl |-> [fl EXCEPT !.shown = "denied"], outcome |-> "denied"]
        ELSE [fl |-> render_list([fl EXCEPT !.entries = withParent,
                                           !.selected_index = 0]),
              outcome |-> "ok"]

refresh_list(fl, fs) ==
    LET st == iterdir_status(fs, fl.current_path)
        listed == scandir(fs, fl.current_path)
        Visible(e) == ~startswith_dot(name(e))
        filtered == IF ~fl.show_hidden THEN SelectSeq(listed, Visible) ELSE listed
        sorted == sort_entries(fs, filtered)
        withParent == IF fl.current_path # parent(fl.current_path)
                      THEN <<parent(fl.current_path)>> \o sorted
                      ELSE sorted
    IN  IF st = "missing" THEN [fl |-> fl, outcome |-> "error"]
        ELSE IF st = "denied"
        THEN [fl |-> [fl EXCEPT !.shown = "denied"], outcome |-> "denied"]
        ELSE [fl |-> render_list([fl EXCEPT !.entries = withParent,
                                           !.selected_index = 0]),
              outcome |-> "ok"]

\* FileList.get_selected_entry: Some(entry) or None
get_selected_entry(fl) ==
    IF 0 <= fl.selected_index /\ fl.selected_index < Len(fl.entries)
    THEN Some(fl.entries[fl.selected_index + 1])
    ELSE None

move_selection_up_unguarded(fl) ==
    [fl |-> render_list([fl EXCEPT !.selected_index = @ - 1]), ret |-> TRUE]

move_selection_up(fl) ==
    IF fl.selected_index > 0
    THEN [fl |-> render_list([fl EXCEPT !.selected_index = @ - 1]), ret |-> TRUE]
    ELSE [fl |-> fl, ret |-> FALSE]

move_selection_down_off_by_one(fl) ==
    IF fl.selected_index < Len(fl.entries)
    THEN [fl |-> render_list([fl EXCEPT !.selected_index = @ + 1]), ret |-> TRUE]
    ELSE [fl |-> fl, ret |-> FALSE]

move_selection_down(fl) ==
    IF fl.selected_index < Len(fl.entries) - 1
    THEN [fl |-> render_list([fl EXCEPT !.selected_index = @ + 1]), ret |-> TRUE]
    ELSE [fl |-> fl, ret |-> FALSE]

\* FileList.enter_selected; outcome is that of the refresh, "none" without one
enter_selected_any_entry(fl, fs) ==
    LET selected == get_selected_entry(fl)
    IN  IF selected # None
        THEN LET r == refresh_list([fl EXCEPT !.current_path = selected[1]], fs)
             IN  [fl |-> r.fl, ret |-> r.outcome # "error", outcome |-> r.outcome]
        ELSE [fl |-> fl, ret |-> FALSE, outcome |-> "none"]

enter_selected(fl, fs) ==
    LET selected == get_selected_entry(fl)
    IN  IF selected # None /\ is_dir(fs, selected[1])
        THEN LET r == refresh_list([fl EXCEPT !.current_path = selected[1]], fs)
             IN  [fl |-> r.fl, ret |-> r.outcome # "error", outcome |-> r.outcome]
        ELSE [fl |-> fl, ret |-> FALSE, outcome |-> "none"]

\* FileList.toggle_hidden_files
toggle_hidden_files_only_shows(fl, fs) ==
    refresh_list([fl EXCEPT !.show_hidden = TRUE], fs)

toggle_hidden_files(fl, fs) ==
    refresh_list([fl EXCEPT !.show_hidden = ~@], fs)


(***************************************************************************)
(* FuzzyFinderScreen: current_path (the search root), all_files,           *)
(* filtered_files, and query, the value of its Input widget.               *)
(***************************************************************************)
SLASH == 47

ResultLimit == 100

Min(a, b) == IF a < b THEN a ELSE b

RECURSIVE Concat(_)
Concat(ss) == IF ss = <<>> THEN <<>> ELSE Head(ss) \o Concat(Tail(ss))

\* Path.rglob("*"): every directory that can be scanned yields its children,
\* the start directory first and then each sub-directory in turn; a directory
\* that cannot be read yields nothing and the walk goes on
RECURSIVE rglob_walk(_, _)
rglob_walk(fs, d) ==
    IF iterdir_status(fs, d) # "ok" THEN <<>>
    ELSE LET kids == scandir(fs, d)
             IsSub(k) == is_dir(fs, k)
             subdirs == SelectSeq(kids, IsSub)
         IN  kids \o Concat([i \in 1..Len(subdirs) |-> rglob_walk(fs, subdirs[i])])

\* a is p or an ancestor of p
IsPrefix(a, b) == Len(a) <= Len(b) /\ SubSeq(b, 1, Len(a)) = a

\* any(part.startswith('.') for part in path.parts), on the absolute path
has_hidden_part(p) == \E i \in 1..Len(p) : startswith_dot(p[i])

\* the sort key of collect_files: x.name.lower()
NameKey(x) == lower(name(x))

\* FuzzyFinderScreen.collect_files: the value it leaves in all_files
collect_files_error_propagates(current_path, fs) ==
    LET NotHidden(p) == ~has_hidden_part(p)
        found == SelectSeq(rglob_walk(fs, current_path), NotHidden)
        key == [i \in 1..Len(found) |-> NameKey(found[i])] \o <<>>
        Denied(d) == IsPrefix(current_path, d) /\ iterdir_status(fs, d) = "denied"
    IN  IF \E d \in fs.present : Denied(d) THEN <<>>
        ELSE StableSort(found, StrKeysLess(key))

collect_files_checks_name_only(current_path, fs) ==
    LET NotHidden(p) == ~startswith_dot(name(p))
        found == SelectSeq(rglob_walk(fs, current_path), NotHidden)
        key == [i \in 1..Len(found) |-> NameKey(found[i])] \o <<>>
    IN  StableSort(found, StrKeysLess(key))

collect_files(current_path, fs) ==
    LET NotHidden(p) == ~has_hidden_part(p)
        found == SelectSeq(rglob_walk(fs, current_path), NotHidden)
        key == [i \in 1..Len(found) |-> NameKey(found[i])] \o <<>>
    IN  StableSort(found, StrKeysLess(key))

RECURSIVE JoinSegments(_)
JoinSegments(segs) ==
    IF segs = <<>> THEN <<>>
    ELSE IF Len(segs) = 1 THEN segs[1]
    ELSE segs[1] \o <<SLASH>> \o JoinSegments(Tail(segs))

\* str(path.relative_to(current_path)), str(path) when path is not below it
rel_path_str(path, current_path) ==
    IF IsPrefix(current_path, path)
    THEN JoinSegments(SubSeq(path, Len(current_path) + 1, Len(path)))
    ELSE <<SLASH>> \o JoinSegments(path)

\* the scorer handed to process.extract (rapidfuzz's WRatio), whose weighting
\* is the library's: here the share of the query's characters that occur in
\* the candidate string, out of 100
Score(query, str) ==
    LET hits == Cardinality({i \in 1..Len(query) :
                               \E j \in 1..Len(str) : str[j] = query[i]})
    IN  (100 * hits) \div Len(query)

\* process.extract(query, choices, scorer, limit): best score first, equal
\* scores in the order of the choices, at most limit of them
extract(query, choices, current_path, limit) ==
    LET n == Len(choices)
        score == [i \in 1..n |-> Score(query, rel_path_str(choices[i], current_path))]
                   \o <<>>
        better == [i \in 1..n |-> [j \in 1..n |-> score[i] > score[j]] \o <<>>] \o <<>>
        ranked == StableSort(choices, better)
    IN  SubSeq(ranked, 1, Min(limit, Len(ranked)))

\* FuzzyFinderScreen.update_results
update_results_unlimited(finder, query, fs) ==
    [finder EXCEPT
       !.query = query,
       !.filtered_files =
           IF query = <<>>
           THEN finder.all_files
           ELSE extract(query, finder.all_files, finder.current_path,
                        Len(finder.all_files))]

update_results_rebuilds(finder, query, fs) ==
    LET files == collect_files(finder.current_path, fs)
    IN  [finder EXCEPT
           !.query = query,
           !.all_files = files,
           !.filtered_files =
               IF query = <<>>
               THEN SubSeq(files, 1, Min(ResultLimit, Len(files)))
               ELSE extract(query, files, finder.current_path, ResultLimit)]

update_results(finder, query, fs) ==
    [finder EXCEPT
       !.query = query,
       !.filtered_files =
           IF query = <<>>
           THEN SubSeq(finder.all_files, 1, Min(ResultLimit, Len(finder.all_files)))
           ELSE extract(query, finder.all_files, finder.current_path, ResultLimit)]

\* FuzzyFinderScreen.__init__ followed by on_mount
FuzzyFinderScreen_open(current_path, fs) ==
    update_results([current_path |-> current_path,
                    all_files |-> collect_files(current_path, fs),
                    filtered_files |-> <<>>,
                    query |-> <<>>], <<>>, fs)

NoFinder ==
    [current_path |-> Root, all_files |-> <<>>, filtered_files |-> <<>>,
     query |-> <<>>]

(***************************************************************************)
(* File contents.  A regular file is [lines, width, valid, readable]: the  *)
(* number of lines reading it yields, the bytes of each line with its      *)
(* newline (width 1: the lines are empty), whether its bytes are valid     *)
(* UTF-8, and whether it may be opened.  fs.content maps paths to files.   *)
(***************************************************************************)
PlainFile == [lines |-> 3, width |-> 2, valid |-> TRUE, readable |-> TRUE]

file_of(fs, p) == IF p \in DOMAIN fs.content THEN fs.content[p] ELSE PlainFile

\* path.stat().st_size
st_size(f) == f.lines * f.width

\* _format_size: the number with one decimal (in tenths, rounded half to
\* even as Python's format does) and the unit reached by dividing by 1024
RoundDiv(a, d) ==
    LET q == a \div d
        r == a % d
    IN  IF 2 * r > d THEN q + 1
        ELSE IF 2 * r = d THEN q + (q % 2)
        ELSE q

RECURSIVE format_size_from(_, _, _)
format_size_from(size, d, units) ==
    IF Len(units) = 1 \/ size < 1024 * d
    THEN [tenths |-> RoundDiv(size * 10, d), unit |-> units[1]]
    ELSE format_size_from(size, d * 1024, Tail(units))

format_size(size) == format_size_from(size, 1, <<"B", "KB", "MB", "GB", "TB">>)

\* a text that is no size, in the place of one
NotSize(text) == [tenths |-> 0, unit |-> text]

NoSize == NotSize("none")

(***************************************************************************)
(* FilePreview and the info boxes: the entry they were computed for, the   *)
(* branch that was taken and what it put on the screen.                    *)
(***************************************************************************)
SizeLimit == 1000000

PreviewLimit == 1000

\* open(path, 'r', encoding='utf-8', errors=errors) and the iteration over f
open_text(f, errors) ==
    IF ~f.readable THEN "PermissionError"
    ELSE IF ~f.valid /\ errors = "strict" THEN "UnicodeDecodeError"
    ELSE "ok"

\* the loop over enumerate(f): the lines appended, and whether the
\* truncation marker was appended before the break
take_lines_unmarked(n) ==
    [kept |-> Cardinality({i \in 0..(n - 1) : i < PreviewLimit}), marker |-> FALSE]

take_lines(n) ==
    [kept |-> Cardinality({i \in 0..(n - 1) : i < PreviewLimit}),
     marker |-> \E i \in 0..(n - 1) : i >= PreviewLimit]

\* path.suffix.lstrip('.').lower()
suffix(nm) ==
    LET dots == {i \in 1..Len(nm) : nm[i] = DOT}
        last == IF dots = {} THEN 0 ELSE CHOOSE i \in dots : \A j \in dots : j <= i
    IN  IF 1 < last /\ last < Len(nm) THEN lower(SubSeq(nm, last + 1, Len(nm)))
        ELSE <<>>

MarkdownSuffixes == {<<109, 100>>, <<109, 97, 114, 107, 100, 111, 119, 110>>}

Shown(kind, lines, marker, size) ==
    [kind |-> kind, lines |-> lines, marker |-> marker, size |-> size]

\* FilePreview.preview_file: the branch taken for path and what it shows
preview_file(path, fs) ==
    IF ~exists(fs, path) THEN Shown("not_found", 0, FALSE, NoSize)
    ELSE IF is_dir(fs, path)
    THEN IF iterdir_status(fs, path) = "ok"
         THEN Shown("directory", 0, FALSE, NoSize)
         ELSE Shown("dir_denied", 0, FALSE, NoSize)
    ELSE LET f == file_of(fs, path)
             file_size == st_size(f)
             opened == open_text(f, "replace")
             taken == take_lines(f.lines)
             empty == taken.kept = 0 \/ (taken.kept = 1 /\ ~taken.marker /\ f.width = 1)
             sfx == suffix(name(path))
         IN  IF file_size > SizeLimit
             THEN Shown("too_large", 0, FALSE, format_size(file_size))
             ELSE IF opened = "UnicodeDecodeError"
             THEN Shown("binary", 0, FALSE, format_size(file_size))
             ELSE IF opened = "PermissionError"
             THEN Shown("denied", 0, FALSE, NoSize)
             ELSE IF empty THEN Shown("empty", 0, FALSE, NoSize)
             ELSE IF sfx \in MarkdownSuffixes
             THEN Shown("markdown", taken.kept, taken.marker, NoSize)
             ELSE IF sfx # <<>>
             THEN Shown("syntax", taken.kept, taken.marker, NoSize)
             ELSE Shown("plain", taken.kept, taken.marker, NoSize)

NoPreview == Shown("no_selection", 0, FALSE, NoSize)

\* FileBrowserApp.update_preview
update_preview(fl, fs) ==
    LET selected == get_selected_entry(fl)
    IN  IF selected # None
        THEN [of |-> selected, shown |-> preview_file(selected[1], fs)]
        ELSE [of |-> None, shown |-> NoPreview]

\* FileBrowserApp.update_info_boxes: the three boxes
Boxes(of, dir_size, file_size, permissions) ==
    [of |-> of, dir_size |-> dir_size, file_size |-> file_size,
     permissions |-> permissions]

update_info_boxes(fl, fs) ==
    LET selected == get_selected_entry(fl)
    IN  IF selected = None THEN Boxes(None, "na", NotSize("na"), "na")
        ELSE IF ~exists(fs, selected[1])
        THEN Boxes(selected, "error", NotSize("error"), "error")
        ELSE IF is_dir(fs, selected[1])
        THEN IF iterdir_status(fs, selected[1]) = "ok"
             THEN Boxes(selected, "counts", NotSize("directory"), "mode")
             ELSE Boxes(selected, "denied", NotSize("na"), "mode")
        ELSE LET st == iterdir_status(fs, fl.current_path)
             IN  IF st = "missing"
                 THEN Boxes(selected, "error", NotSize("error"), "error")
                 ELSE Boxes(selected,
                            IF st = "ok" THEN "counts" ELSE "denied",
                            format_size(st_size(file_of(fs, selected[1]))),
                            "mode")


(***************************************************************************)
(* The colour schemes.                                                     *)
(***************************************************************************)
\* list(COLOR_SCHEMES.keys()): the names of the table, in its order
COLOR_SCHEMES ==
    <<"Tokyo Night", "Dracula", "Nord", "Catppuccin Mocha", "Gruvbox Dark",
      "Solarized Dark", "One Dark", "Monokai Pro">>

\* FileBrowserApp.handle_scheme_change: the value it leaves in current_scheme
handle_scheme_change_keeps_current(current, selected) == current

handle_scheme_change(current, selected) ==
    IF selected = None \/ selected[1] = current THEN current
    ELSE selected[1]

(***************************************************************************)
(* FileBrowserApp: the state of the session.                               *)
(***************************************************************************)
VARIABLES
    fs,           \* the filesystem: present, readable, order (of a scan), content
    fsChanges,    \* how many times it has changed since the start
    mode,         \* "Starting", "Browsing", "Searching" (the finder is open)
                  \* or "Settings" (the settings dialog is open)
    crashed,      \* an exception left a handler: the application has ended
    fl,           \* the FileList widget
    finder,       \* the FuzzyFinderScreen, NoFinder while none is open
    preview,      \* the FilePreview widget: entry previewed and branch taken
    info,         \* the three info boxes: entry described and branch taken
    lastCmd,      \* the command handled last
    ret,          \* what the FileList method it called returned
    chosen,       \* the path the finder was dismissed with, None without one
    lastRefresh,  \* how the refresh_list of that command ended, "none" without
    listedAt,     \* fsChanges when refresh_list last listed a directory
    toggleRun,    \* toggle-hidden commands handled in a row: 0, 1 or 2
    beforeToggle, \* the FileList before the first of them, and whether the
                  \* filesystem was still as its entries were listed
    atActivate,   \* the FileList when the open finder was activated
    builtFiles,   \* all_files as collect_files left it at activation
    current_scheme,  \* FileBrowserApp.current_scheme
    selected_scheme  \* what the SettingsScreen was dismissed with, None before

vars == <<fs, fsChanges, mode, crashed, fl, finder, preview, info, lastCmd, ret, chosen,
          lastRefresh, listedAt, toggleRun, beforeToggle, atActivate, builtFiles,
          current_scheme, selected_scheme>>

\* the values typed into the finder's input: "", "a", "k", "b.t"
Queries == {<<>>, <<97>>, <<107>>, <<98, 46, 116>>}

\* list.index(x): the first position of x counted from 1, 0 for ValueError
index_of(seq, x) ==
    IF \E i \in 1..Len(seq) : seq[i] = x
    THEN CHOOSE i \in 1..Len(seq) : seq[i] = x /\ \A j \in 1..(i - 1) : seq[j] # x
    ELSE 0

\* FileBrowserApp.handle_fuzzy_selection up to its two update calls;
\* updated tells whether they are reached
handle_fuzzy_selection_refreshes_on_none(fl0, fs0, selected_path) ==
    LET r == refresh_list([fl0 EXCEPT !.current_path =
                              IF selected_path = None THEN @
                              ELSE IF is_dir(fs0, selected_path[1])
                              THEN selected_path[1]
                              ELSE parent(selected_path[1])], fs0)
    IN  [fl |-> r.fl, outcome |-> r.outcome, updated |-> r.outcome # "error"]

handle_fuzzy_selection(fl0, fs0, selected_path) ==
    IF selected_path = None
    THEN [fl |-> fl0, outcome |-> "none", updated |-> FALSE]
    ELSE LET target == selected_path[1]
         IN  IF is_dir(fs0, target)
             THEN LET r == refresh_list([fl0 EXCEPT !.current_path = target], fs0)
                  IN  [fl |-> r.fl, outcome |-> r.outcome,
                       updated |-> r.outcome # "error"]
             ELSE LET r == refresh_list([fl0 EXCEPT !.current_path = parent(target)],
                                        fs0)
                      file_index == index_of(r.fl.entries, target)
                  IN  IF r.outcome = "error"
                      THEN [fl |-> r.fl, outcome |-> "error", updated |-> FALSE]
                      ELSE IF file_index # 0
                      THEN [fl |-> render_list([r.fl EXCEPT
                                                  !.selected_index = file_index - 1]),
                            outcome |-> r.outcome, updated |-> TRUE]
                      ELSE [fl |-> r.fl, outcome |-> r.outcome, updated |-> TRUE]

\* FileBrowserApp.action_go_back up to its two update calls
action_go_back_result(fl0, fs0) ==
    IF fl0.current_path # parent(fl0.current_path)
    THEN LET r == refresh_list([fl0 EXCEPT !.current_path = parent(fl0.current_path)],
                               fs0)
         IN  [fl |-> r.fl, outcome |-> r.outcome, updated |-> r.outcome # "error"]
    ELSE [fl |-> fl0, outcome |-> "none", updated |-> FALSE]

\* what every command handler leaves behind: the FileList, the two panels
\* (recomputed by update_preview and update_info_boxes when the handler
\* reaches them) and the record of the command
Handled_preview_only(cmd, newfl, outcome, retv, updated) ==
    /\ fl' = newfl
    /\ crashed' = (outcome = "error")
    /\ preview' = IF updated THEN update_preview(newfl, fs) ELSE preview
    /\ info' = info
    /\ lastCmd' = cmd
    /\ ret' = retv
    /\ lastRefresh' = outcome
    /\ listedAt' = IF outcome = "ok" THEN fsChanges ELSE listedAt

Handled(cmd, newfl, outcome, retv, updated) ==
    /\ fl' = newfl
    /\ crashed' = (outcome = "error")
    /\ preview' = IF updated THEN update_preview(newfl, fs) ELSE preview
    /\ info' = IF updated THEN update_info_boxes(newfl, fs) ELSE info
    /\ lastCmd' = cmd
    /\ ret' = retv
    /\ lastRefresh' = outcome
    /\ listedAt' = IF outcome = "ok" THEN fsChanges ELSE listedAt

NoToggleRun == toggleRun' = 0 /\ beforeToggle' = <<>>

NoneChosen == chosen' = None

\* the application constructed in directory cwd, before it is mounted
Constructed(cwd) ==
    /\ fsChanges = 0
    /\ mode = "Starting"
    /\ crashed = FALSE
    /\ fl = FileList_init(cwd)
    /\ finder = NoFinder
    /\ preview = [of |-> None, shown |-> NoPreview]
    /\ info = Boxes(None, "blank", NotSize("blank"), "blank")
    /\ lastCmd = "none"
    /\ ret = FALSE
    /\ chosen = None
    /\ lastRefresh = "none"
    /\ listedAt = 0
    /\ toggleRun = 0
    /\ beforeToggle = <<>>
    /\ atActivate = <<>>
    /\ builtFiles = <<>>
    /\ current_scheme = "Tokyo Night"
    /\ selected_scheme = None

\* what the files of the tree hold: /B.txt is empty, /sub/lock/key is no
\* text, /sub/b.txt is longer than a preview, the others are short texts
TreeContent ==
    [p \in FilePaths |->
        IF p = p_B_txt THEN [PlainFile EXCEPT !.lines = 0]
        ELSE IF p = p_key THEN [PlainFile EXCEPT !.valid = FALSE]
        ELSE IF p = p_sub_b THEN [PlainFile EXCEPT !.lines = PreviewLimit + 1]
        ELSE PlainFile]

Init ==
    /\ \E unreadable \in {{}, {p_lock}}, rev \in BOOLEAN :
          fs = [present |-> Tree, readable |-> DirPaths \ unreadable,
                order |-> IF rev THEN Reverse(ScanBase) ELSE ScanBase,
                content |-> TreeContent]
    /\ \E cwd \in DirPaths : Constructed(cwd)

\* FileList.on_mount, then FileBrowserApp.on_mount
Mount ==
    /\ mode = "Starting" /\ ~crashed
    /\ LET r == refresh_list(fl, fs)
       IN  Handled("mount", r.fl, r.outcome, FALSE, r.outcome # "error")
    /\ mode' = "Browsing"
    /\ NoToggleRun
    /\ NoneChosen
    /\ UNCHANGED <<current_scheme, selected_scheme, fs, fsChanges, finder, atActivate, builtFiles>>

Browsing == mode = "Browsing" /\ ~crashed

action_move_down ==
    /\ Browsing
    /\ LET r == move_selection_down(fl)
       IN  Handled("move_down", r.fl, "none", r.ret, r.ret)
    /\ NoToggleRun
    /\ NoneChosen
    /\ UNCHANGED <<current_scheme, selected_scheme, fs, fsChanges, mode, finder, atActivate, builtFiles>>

action_move_up ==
    /\ Browsing
    /\ LET r == move_selection_up(fl)
       IN  Handled("move_up", r.fl, "none", r.ret, r.ret)
    /\ NoToggleRun
    /\ NoneChosen
    /\ UNCHANGED <<current_scheme, selected_scheme, fs, fsChanges, mode, finder, atActivate, builtFiles>>

action_select ==
    /\ Browsing
    /\ LET r == enter_selected(fl, fs)
       IN  Handled("select", r.fl, r.outcome, r.ret, r.outcome # "error")
    /\ NoToggleRun
    /\ NoneChosen
    /\ UNCHANGED <<current_scheme, selected_scheme, fs, fsChanges, mode, finder, atActivate, builtFiles>>

action_go_back ==
    /\ Browsing
    /\ LET r == action_go_back_result(fl, fs)
       IN  Handled("go_back", r.fl, r.outcome, FALSE, r.updated)
    /\ NoToggleRun
    /\ NoneChosen
    /\ UNCHANGED <<current_scheme, selected_scheme, fs, fsChanges, mode, finder, atActivate, builtFiles>>

action_toggle_hidden ==
    /\ Browsing
    /\ LET r == toggle_hidden_files(fl, fs)
       IN  Handled("toggle_hidden", r.fl, r.outcome, FALSE, r.outcome # "error")
    /\ IF toggleRun = 1
       THEN toggleRun' = 2 /\ beforeToggle' = beforeToggle
       ELSE /\ toggleRun' = 1
            /\ beforeToggle' = <<[fl |-> fl, fresh |-> listedAt = fsChanges]>>
    /\ NoneChosen
    /\ UNCHANGED <<current_scheme, selected_scheme, fs, fsChanges, mode, finder, atActivate, builtFiles>>

\* FileBrowserApp.action_fuzzy_find: the finder opens over the app
action_fuzzy_find ==
    /\ Browsing
    /\ mode' = "Searching"
    /\ finder' = FuzzyFinderScreen_open(fl.current_path, fs)
    /\ atActivate' = <<fl>>
    /\ builtFiles' = <<finder'.all_files>>
    /\ Handled("fuzzy_find", fl, "none", FALSE, FALSE)
    /\ NoToggleRun
    /\ NoneChosen
    /\ UNCHANGED <<current_scheme, selected_scheme, fs, fsChanges>>

Searching == mode = "Searching" /\ ~crashed

\* FuzzyFinderScreen.on_input_changed
on_input_changed ==
    /\ Searching
    /\ \E value \in Queries :
          /\ value # finder.query
          /\ finder' = update_results(finder, value, fs)
    /\ Handled("input_changed", fl, "none", FALSE, FALSE)
    /\ NoToggleRun
    /\ NoneChosen
    /\ UNCHANGED <<current_scheme, selected_scheme, fs, fsChanges, mode, atActivate, builtFiles>>

\* FuzzyFinderScreen.on_list_view_selected, dismiss(selected_path) and the
\* callback handle_fuzzy_selection
on_list_view_selected ==
    /\ Searching
    /\ \E index \in 0..(Len(finder.filtered_files) - 1) :
          LET selected_path == Some(finder.filtered_files[index + 1])
              r == handle_fuzzy_selection(fl, fs, selected_path)
          IN  /\ Handled("fuzzy_selected", r.fl, r.outcome, FALSE, r.updated)
              /\ chosen' = selected_path
    /\ mode' = "Browsing"
    /\ finder' = NoFinder
    /\ atActivate' = <<>>
    /\ builtFiles' = <<>>
    /\ NoToggleRun
    /\ UNCHANGED <<current_scheme, selected_scheme, fs, fsChanges>>

\* FuzzyFinderScreen.action_dismiss_finder, dismiss(None) and the callback
action_dismiss_finder ==
    /\ Searching
    /\ LET r == handle_fuzzy_selection(fl, fs, None)
       IN  Handled("dismiss_finder", r.fl, r.outcome, FALSE, r.updated)
    /\ mode' = "Browsing"
    /\ finder' = NoFinder
    /\ atActivate' = <<>>
    /\ builtFiles' = <<>>
    /\ NoToggleRun
    /\ NoneChosen
    /\ UNCHANGED <<current_scheme, selected_scheme, fs, fsChanges>>

(***************************************************************************)
(* The filesystem changes behind the program's back, between two commands. *)
(***************************************************************************)
FsStep ==
    /\ mode # "Starting" /\ ~crashed
    /\ fsChanges < MaxFsChanges
    /\ fsChanges' = fsChanges + 1
    /\ lastCmd' = "fs"
    /\ ret' = FALSE
    /\ lastRefresh' = "none"
    /\ NoToggleRun
    /\ NoneChosen
    /\ UNCHANGED <<current_scheme, selected_scheme, mode, crashed, fl, finder, preview,
                   info, listedAt, atActivate,
                   builtFiles>>

\* a file or a directory with all below it vanishes
FsRemove ==
    /\ FsStep
    /\ \E p \in fs.present \cap Volatile :
          fs' = [fs EXCEPT !.present = {q \in @ : ~IsPrefix(p, q)}]

\* a directory loses or regains its read permission
FsChmod ==
    /\ FsStep
    /\ \E d \in fs.present \cap DirPaths \cap Volatile :
          fs' = [fs EXCEPT !.readable =
                    IF d \in @ THEN @ \ {d} ELSE @ \cup {d}]

Next ==
    \/ Mount
    \/ action_move_down
    \/ action_move_up
    \/ action_select
    \/ action_go_back
    \/ action_toggle_hidden
    \/ action_fuzzy_find
    \/ on_input_changed
    \/ on_list_view_selected
    \/ action_dismiss_finder
    \/ FsRemove
    \/ FsChmod

Spec == Init /\ [][Next]_vars

(***************************************************************************)
(* The settings dialog.  It is a modal screen over the listing, and its    *)
(* handlers read and write current_scheme only, which no other handler     *)
(* touches: SpecThemes runs them together with the browsing commands on a  *)
(* filesystem that stays as it is.                                         *)
(***************************************************************************)
\* what the three handlers of the dialog record of the command
SchemeCommand(cmd) ==
    /\ lastCmd' = cmd
    /\ ret' = FALSE
    /\ lastRefresh' = "none"
    /\ NoToggleRun
    /\ NoneChosen
    /\ UNCHANGED <<fs, fsChanges, crashed, fl, finder, preview, info, listedAt,
                   atActivate, builtFiles>>

\* FileBrowserApp.action_show_settings
action_show_settings ==
    /\ Browsing
    /\ mode' = "Settings"
    /\ UNCHANGED <<current_scheme, selected_scheme>>
    /\ SchemeCommand("show_settings")

Settings == mode = "Settings" /\ ~crashed

\* SettingsScreen.on_list_view_selected, dismiss(selected_scheme) and the
\* callback handle_scheme_change
settings_on_list_view_selected ==
    /\ Settings
    /\ \E index \in 0..(Len(COLOR_SCHEMES) - 1) :
          LET selected == Some(COLOR_SCHEMES[index + 1])
          IN  /\ selected_scheme' = selected
              /\ current_scheme' = handle_scheme_change(current_scheme, selected)
    /\ mode' = "Browsing"
    /\ SchemeCommand("scheme_selected")

\* SettingsScreen.action_dismiss_settings, dismiss(None) and the callback
action_dismiss_settings ==
    /\ Settings
    /\ selected_scheme' = None
    /\ current_scheme' = handle_scheme_change(current_scheme, None)
    /\ mode' = "Browsing"
    /\ SchemeCommand("dismiss_settings")

NextThemes ==
    \/ Mount
    \/ action_move_down
    \/ action_move_up
    \/ action_select
    \/ action_go_back
    \/ action_toggle_hidden
    \/ action_show_settings
    \/ settings_on_list_view_selected
    \/ action_dismiss_settings

SpecThemes == Init /\ [][NextThemes]_vars

(***************************************************************************)
(* The finder over one wide directory: the root holds up to MaxFiles plain *)
(* files and nothing else, more than update_results ever shows.            *)
(***************************************************************************)
MaxFiles == 102

\* the name of the i-th file: f001k, f002z, f003a, f004k, ...
WideName(i) ==
    <<102, 48 + (i \div 100), 48 + ((i \div 10) % 10), 48 + (i % 10),
      IF i % 3 = 0 THEN 97 ELSE IF i % 3 = 1 THEN 107 ELSE 122>>

WideFiles(n) == [i \in 1..n |-> <<WideName(i)>>]

InitQuery ==
    /\ \E n \in 0..MaxFiles, rev \in BOOLEAN :
          fs = [present |-> {Root} \cup {WideFiles(n)[i] : i \in 1..n},
                readable |-> {Root},
                order |-> IF rev THEN Reverse(WideFiles(n)) ELSE WideFiles(n),
                content |-> <<>>]
    /\ Constructed(Root)

NextQuery ==
    \/ Mount
    \/ action_fuzzy_find
    \/ on_input_changed
    \/ action_dismiss_finder

SpecQuery == InitQuery /\ [][NextQuery]_vars

(***************************************************************************)
(* The preview of one file: the root holds the file a.py and nothing else, *)
(* and the file is any of PreviewFiles.                                    *)
(***************************************************************************)
MaxLines == 1002

\* empty files, files of empty lines, of short lines and of lines of 1000
\* bytes (1000 of these make SizeLimit bytes); a file of newlines only is
\* valid text
PreviewFiles ==
    {f \in [lines : 0..MaxLines, width : {1, 2, 1000}, valid : BOOLEAN,
            readable : BOOLEAN] :
        /\ f.width = 1 => f.valid
        /\ f.lines = 0 => f.width = 1}

InitPreview ==
    /\ \E f \in PreviewFiles :
          fs = [present |-> {Root, p_a_py}, readable |-> {Root},
                order |-> ScanBase, content |-> [p \in {p_a_py} |-> f]]
    /\ Constructed(Root)

NextPreview ==
    \/ Mount
    \/ action_move_down
    \/ action_move_up
    \/ action_select

SpecPreview == InitPreview /\ [][NextPreview]_vars


(***************************************************************************)
(* Properties of the cursor model.                                         *)
(***************************************************************************)
\* the four fields of the FileList the properties speak of
SameListing(a, b) ==
    /\ a.current_path = b.current_path
    /\ a.entries = b.entries
    /\ a.selected_index = b.selected_index
    /\ a.show_hidden = b.show_hidden

\* C1: whenever entries is non-empty, 0 <= selected_index < len(entries),
\* in every state any sequence of commands reaches.
C1_SelectionInRange ==
    fl.entries # <<>> =>
        (0 <= fl.selected_index /\ fl.selected_index < Len(fl.entries))

C1_Witness ==
    /\ lastCmd = "move_down" /\ ret
    /\ Len(fl.entries) >= 3
    /\ fl.selected_index = Len(fl.entries) - 1

\* C2: after the initial refresh, whenever current_path has a parent,
\* entries[0] is that parent.
C2_ParentFirst ==
    (mode # "Starting" /\ ~crashed /\ fl.current_path # parent(fl.current_path)) =>
        (fl.entries # <<>> /\ fl.entries[1] = parent(fl.current_path))

\* C3: a refresh that is denied the directory raises nothing and leaves the
\* listing a single permission-denied line, with no entry sequence.
C3_DeniedListingIsDiagnostic ==
    lastRefresh = "denied" =>
        (~crashed /\ fl.shown = "denied" /\ fl.entries = <<>>)

\* C4: after a successful refresh the entries after the optional parent are
\* exactly the children of current_path that pass the hidden filter, each
\* once, directories before files, and in case-insensitive name order in
\* each of the two groups.
C4_RefreshListsFilteredSorted ==
    lastRefresh = "ok" =>
        LET d == fl.current_path
            hasParent == d # parent(d)
            body == IF hasParent THEN Tail(fl.entries) ELSE fl.entries
            expected == {p \in fs.present :
                           /\ p # Root /\ parent(p) = d
                           /\ (fl.show_hidden \/ ~startswith_dot(name(p)))}
        IN  /\ hasParent => (fl.entries # <<>> /\ fl.entries[1] = parent(d))
            /\ {body[i] : i \in 1..Len(body)} = expected
            /\ Len(body) = Cardinality(expected)
            /\ \A i, j \in 1..Len(body) :
                  i < j =>
                     /\ is_dir(fs, body[j]) => is_dir(fs, body[i])
                     /\ (is_dir(fs, body[i]) = is_dir(fs, body[j])) =>
                           ~StrLess(lower(name(body[j])), lower(name(body[i])))

C4_Witness ==
    /\ lastRefresh = "ok" /\ lastCmd = "toggle_hidden"
    /\ fl.show_hidden
    /\ fl.current_path = Root
    /\ fl.entries = <<p_git, p_sub, p_hidden, p_a_py, p_B_txt>>

\* C5: a move by +1 or -1 returns true exactly when selected_index changed:
\* up at index 0 and down at the last index (or with no entries) return
\* false and change nothing, every other move changes selected_index by
\* exactly the delta and nothing else.
C5_MoveReturnsWhetherMoved ==
    [][(lastCmd' \in {"move_up", "move_down"}) =>
         LET delta == IF lastCmd' = "move_up" THEN 0 - 1 ELSE 1
             atBoundary == IF lastCmd' = "move_up"
                           THEN fl.selected_index = 0
                           ELSE fl.selected_index >= Len(fl.entries) - 1
         IN  /\ ret' = (fl'.selected_index # fl.selected_index)
             /\ atBoundary => (~ret' /\ SameListing(fl', fl))
             /\ ~atBoundary =>
                   /\ ret'
                   /\ fl'.selected_index = fl.selected_index + delta
                   /\ fl'.entries = fl.entries
                   /\ fl'.current_path = fl.current_path
                   /\ fl'.show_hidden = fl.show_hidden]_vars

C5_Witness ==
    /\ lastCmd = "move_up" /\ ret
    /\ fl.selected_index = 1
    /\ Len(fl.entries) >= 3

\* C6: two toggle-hidden commands in a row, the filesystem unchanged since
\* the entries were listed, restore show_hidden and the entry sequence, and
\* neither of them changes current_path.
C6_ToggleTwiceRestores ==
    toggleRun >= 1 =>
        LET before == beforeToggle[1]
        IN  /\ fl.current_path = before.fl.current_path
            /\ toggleRun = 1 => fl.show_hidden = ~before.fl.show_hidden
            /\ toggleRun = 2 => fl.show_hidden = before.fl.show_hidden
            /\ (toggleRun = 2 /\ before.fresh) => fl.entries = before.fl.entries

C6_Witness ==
    /\ toggleRun = 2 /\ beforeToggle[1].fresh /\ lastRefresh = "ok"
    /\ fl.current_path = Root
    /\ ~fl.show_hidden
    /\ fl.entries = <<p_sub, p_a_py, p_B_txt>>
    /\ fl.entries = beforeToggle[1].fl.entries

\* C7: enter_selected returns true, sets current_path to the selected entry
\* and refreshes exactly when the selected entry is a directory; on a file,
\* or with nothing selected, it returns false and changes nothing.
C7_EnterOnlyDirectories ==
    [][(lastCmd' = "select") =>
         LET selected == get_selected_entry(fl)
             isDir == selected # None /\ is_dir(fs, selected[1])
         IN  /\ ret' = isDir
             /\ isDir => (fl'.current_path = selected[1] /\ lastRefresh' # "none")
             /\ ~isDir => (SameListing(fl', fl) /\ lastRefresh' = "none")]_vars

C7_Witness ==
    /\ lastCmd = "select" /\ ret /\ lastRefresh = "ok"
    /\ fl.current_path = p_sub

\* C8: confirming a search result that is a file sets current_path to its
\* parent, refreshes, and ends with selected_index at the position of the
\* result in the entries when it is there and at 0 when it is not; a
\* directory result becomes current_path and is refreshed.
C8_JumpSelectsTarget ==
    (lastCmd = "fuzzy_selected" /\ ~crashed) =>
        LET target == chosen[1]
            at == index_of(fl.entries, target)
        IN  /\ lastRefresh # "none"
            /\ IF is_dir(fs, target)
               THEN fl.current_path = target
               ELSE /\ fl.current_path = parent(target)
                    /\ fl.selected_index = (IF at # 0 THEN at - 1 ELSE 0)

\* C9: cancelling the search returns to Browsing with current_path, entries,
\* selected_index and show_hidden as they were when the search was activated.
C9_CancelKeepsListing ==
    [][(lastCmd' = "dismiss_finder") =>
         /\ mode' = "Browsing"
         /\ atActivate # <<>>
         /\ SameListing(fl', atActivate[1])]_vars

C9_Witness ==
    /\ lastCmd = "dismiss_finder" /\ mode = "Browsing"
    /\ fl.selected_index > 0
    /\ fl.show_hidden
    /\ fsChanges > 0

\* C10: throughout a search session the search root is the current_path the
\* listing had at activation and the candidates are those built at
\* activation, whatever is typed and whatever the filesystem has become.
C10_SessionSnapshotFixed ==
    mode = "Searching" =>
        /\ atActivate # <<>>
        /\ finder.current_path = atActivate[1].current_path
        /\ finder.current_path = fl.current_path
        /\ builtFiles = <<finder.all_files>>
        /\ \A i \in 1..Len(finder.filtered_files) :
              \E j \in 1..Len(finder.all_files) :
                 finder.filtered_files[i] = finder.all_files[j]

C10_Witness ==
    /\ mode = "Searching" /\ lastCmd = "input_changed"
    /\ finder.query # <<>>
    /\ collect_files(finder.current_path, fs) # finder.all_files

(***************************************************************************)
(* Properties of the search index.                                         *)
(***************************************************************************)
\* C11: after build no candidate has a path segment starting with '.': hidden
\* files, hidden directories and everything inside a hidden directory are
\* left out of all_files.
C11_NoHiddenCandidates ==
    mode = "Searching" =>
        \A i \in 1..Len(finder.all_files) :
           LET p == finder.all_files[i]
           IN  /\ \A k \in 1..Len(p) : p[k][1] # DOT
               /\ p \notin {p_hidden, p_git, p_cfg}

C11_Witness ==
    /\ mode = "Searching" /\ lastCmd = "fuzzy_find"
    /\ finder.current_path = Root
    /\ {p_hidden, p_git, p_cfg} \subseteq fs.present
    /\ Len(finder.all_files) >= 5

\* C12: after every change of the query the result set has at most 100
\* entries, each one a candidate; for the empty query it is the first 100
\* candidates (all of them when there are fewer) in the order of all_files;
\* on an index that holds nothing the result is the empty sequence.
C12_ResultsBounded ==
    mode = "Searching" =>
        LET all == finder.all_files
            res == finder.filtered_files
        IN  /\ Len(res) <= 100
            /\ \A i \in 1..Len(res) : \E j \in 1..Len(all) : res[i] = all[j]
            /\ \A i, j \in 1..Len(res) : i # j => res[i] # res[j]
            /\ finder.query = <<>> =>
                  /\ Len(res) = (IF Len(all) < 100 THEN Len(all) ELSE 100)
                  /\ \A i \in 1..Len(res) : res[i] = all[i]
            /\ all = <<>> => res = <<>>

C12_Witness ==
    /\ mode = "Searching" /\ lastCmd = "input_changed"
    /\ Len(finder.all_files) > 100
    /\ finder.query # <<>>
    /\ Len(finder.filtered_files) = 100
    /\ \E i \in 1..100 : finder.filtered_files[i] # finder.all_files[i]

\* C13: a permission error met while one subtree is walked during build costs
\* the candidates of that subtree only: right after build every path that is
\* reached through readable directories is a candidate (unless a segment of
\* it starts with '.'), nothing below an unreadable directory is, and no
\* error has left the command.
C13_DeniedSubtreeOnly ==
    (mode = "Searching" /\ lastCmd = "fuzzy_find") =>
        LET root == finder.current_path
            Below(a, p) == IsPrefix(a, p) /\ a # p
            Cand(p) == \E i \in 1..Len(finder.all_files) : finder.all_files[i] = p
            Walked(p) == \A a \in fs.present :
                            (IsPrefix(root, a) /\ Below(a, p)) => a \in fs.readable
        IN  /\ ~crashed
            /\ \A p \in fs.present :
                  (Below(root, p) /\ Walked(p) /\ \A k \in 1..Len(p) : p[k][1] # DOT)
                      => Cand(p)
            /\ \A d \in fs.present \cap DirPaths :
                  (IsPrefix(root, d) /\ d \notin fs.readable) =>
                      \A p \in fs.present : Below(d, p) => ~Cand(p)

C13_Witness ==
    /\ mode = "Searching" /\ lastCmd = "fuzzy_find"
    /\ finder.current_path = Root
    /\ p_lock \in fs.present /\ p_lock \notin fs.readable
    /\ p_key \in fs.present
    /\ \E i \in 1..Len(finder.all_files) : finder.all_files[i] = p_sub_b
    /\ \E i \in 1..Len(finder.all_files) : finder.all_files[i] = p_a_py
    /\ \A i \in 1..Len(finder.all_files) : finder.all_files[i] # p_key

\* C19: for every search root, every path below the root that the walk
\* reaches and whose path relative to the root has no segment starting with
\* '.' is a candidate after build, also when a segment of the root's own
\* absolute path starts with '.'.
C19_VisibleBelowRootAreCandidates ==
    (mode = "Searching" /\ lastCmd = "fuzzy_find") =>
        LET root == finder.current_path
            Reached(p) == \A a \in fs.present :
                             (IsPrefix(root, a) /\ IsPrefix(a, p) /\ a # p)
                                 => a \in fs.readable
            VisibleFromRoot(p) == \A k \in (Len(root) + 1)..Len(p) : p[k][1] # DOT
        IN  \A p \in fs.present :
               (IsPrefix(root, p) /\ p # root /\ Reached(p) /\ VisibleFromRoot(p))
                   => \E i \in 1..Len(finder.all_files) : finder.all_files[i] = p

(***************************************************************************)
(* Properties of the preview.                                              *)
(***************************************************************************)
\* the preview shows the contents of a file, as markdown, highlighted or plain
Rendered == preview.shown.kind \in {"markdown", "syntax", "plain"}

\* the file the preview was computed for
PreviewedFile == file_of(fs, preview.of[1])

\* C14 as stated: a rendered preview never takes more than the first 1000
\* lines, and whenever the file has 1000 lines or more, exactly 1000
\* included, it ends with the truncation marker.
C14_MarkerFrom1000Lines ==
    Rendered =>
        /\ preview.shown.lines <= 1000
        /\ PreviewedFile.lines >= 1000 => preview.shown.marker

\* C14 as the code has it: a rendered preview takes the first 1000 lines of
\* the file (all of them when there are fewer), and it ends with the
\* truncation marker exactly when the file has more than 1000 lines; a file
\* of exactly 1000 lines is shown whole, without marker.
C14_MarkerAbove1000Lines ==
    Rendered =>
        /\ preview.shown.lines <= 1000
        /\ preview.shown.lines =
              (IF PreviewedFile.lines < 1000 THEN PreviewedFile.lines ELSE 1000)
        /\ preview.shown.marker <=> PreviewedFile.lines > 1000

C14_Witness ==
    /\ Rendered
    /\ PreviewedFile.lines = 1001
    /\ preview.shown.lines = 1000
    /\ preview.shown.marker

\* C15: the preview of an existing file of at most 1,000,000 bytes whose
\* bytes do not decode as text is the binary diagnostic with the formatted
\* size, not rendered content.
C15_BinaryDiagnostic ==
    (/\ preview.shown.kind \in {"markdown", "syntax", "plain", "empty", "binary"}
     /\ st_size(PreviewedFile) <= 1000000
     /\ ~PreviewedFile.valid) =>
        /\ preview.shown.kind = "binary"
        /\ preview.shown.size = format_size(st_size(PreviewedFile))

\* C16: after every command that completes in Browsing (start, move up and
\* down, enter, back, toggle-hidden, search confirm and cancel) the preview
\* and the info boxes were both last computed for the entry that is now
\* selected, and a command that changes either panel leaves both as they are
\* computed for that entry from the filesystem of the moment: never one
\* without the other.
C16_PanelsFollowSelection ==
    [][(/\ mode' = "Browsing" /\ ~crashed'
        /\ lastCmd' \in {"mount", "move_down", "move_up", "select", "go_back",
                         "toggle_hidden", "fuzzy_selected", "dismiss_finder"}) =>
          /\ preview'.of = get_selected_entry(fl')
          /\ info'.of = get_selected_entry(fl')
          /\ (preview' # preview \/ info' # info) =>
                /\ preview' = update_preview(fl', fs')
                /\ info' = update_info_boxes(fl', fs')]_vars

C16_Witness ==
    /\ mode = "Browsing" /\ lastCmd = "fuzzy_selected" /\ ~crashed
    /\ fsChanges > 0
    /\ fl.selected_index > 0
    /\ preview.of = get_selected_entry(fl) /\ info.of = preview.of
    /\ preview.shown.kind = "syntax"
    /\ info.file_size = format_size(st_size(PreviewedFile))

(***************************************************************************)
(* Properties of the error handling.                                       *)
(***************************************************************************)
\* C17: no filesystem error raised during refresh, during the build of the
\* search index or during preview leaves the command that met it: whatever
\* the filesystem has become, every command ends normally and the session
\* goes on.
C17_NoErrorEscapes == ~crashed

====
